---------------------------- MODULE Spec2Model ----------------------------
(***************************************************************************)
(* A model of the Erio interpreter (src/src/erio.py): the character-driven *)
(* tokenizer, the recursive-descent parser and the tree-walking evaluator. *)
(*                                                                         *)
(* Text is modelled as a sequence of one-character strings, so that the    *)
(* lexeme tests (isdigit, isidentifier, startswith, ...) and conversions   *)
(* (int(), str()) are computed character by character as the code does.    *)
(*                                                                         *)
(* Three specifications share the variables:                               *)
(*   LexSpec    list(tokenize(stream))                                     *)
(*   ParseSpec  list(parse(iter(toks)))                                    *)
(*   Spec       execute(env, parse(iter(toks))), the lazy pipeline         *)
(***************************************************************************)
EXTENDS Integers, Sequences, FiniteSets, TLC

VARIABLES
    stream,     \* tokenize: the characters of the input
    pos,        \* tokenize: index of the next character of the for loop
    buffer,     \* tokenize: local `buffer`
    instring,   \* tokenize: local `instring`
    tokens,     \* tokenize: the tokens yielded so far
    toks,       \* parse: the token stream handed to parse
    ti,         \* parse: index in toks of the local `token` (0: not started)
    stmts,      \* parse: the top-level statements yielded so far
    frames,     \* execute: the Namespace objects (1 is the global one)
    heap,       \* execute: the Python lists behind Sequence values
    out,        \* execute: the characters written to the output sink
    steps,      \* execute: loop iterations and calls made so far
    status      \* "run", "done", or the exception that ended the run

vars == <<stream, pos, buffer, instring, tokens, toks, ti, stmts,
          frames, heap, out, steps, status>>

lexvars == <<stream, pos, buffer, instring, tokens>>
parsevars == <<toks, ti, stmts>>
execvars == <<frames, heap, out, steps>>

(***************************************************************************)
(* Bounds of the model.                                                    *)
(***************************************************************************)
MaxLen == 5
MaxExprLen == 5
MaxSteps == 12

(***************************************************************************)
(* Text helpers.                                                           *)
(***************************************************************************)
Quote == "\""

Letters ==
    { "a", "b", "c", "d", "e", "f", "g", "h", "i", "j", "k", "l", "m",
      "n", "o", "p", "q", "r", "s", "t", "u", "v", "w", "x", "y", "z",
      "A", "B", "C", "D", "E", "F", "G", "H", "I", "J", "K", "L", "M",
      "N", "O", "P", "Q", "R", "S", "T", "U", "V", "W", "X", "Y", "Z" }
Digits == {"0", "1", "2", "3", "4", "5", "6", "7", "8", "9"}
Whitespace == {" ", "\t", "\n"}

\* str.isspace() / the characters str.strip() removes
IsSpace(c) == c \in Whitespace

\* a lexer that keeps the whitespace it reads
KeepChar(c) == <<c>>

\* c.strip() of a one-character string
Strip(c) == IF IsSpace(c) THEN <<>> ELSE <<c>>

\* str.isprintable(): of the modelled characters only tab and newline are not
IsPrintable(s) == \A k \in 1..Len(s) : s[k] \notin {"\t", "\n"}

(***************************************************************************)
(* Tokens: erio.py lines 14-53.                                            *)
(***************************************************************************)
Token(type, value) == [type |-> type, value |-> value]

keywords ==
    { <<"i","f">>, <<"t","h","e","n">>, <<"e","l","s","e">>,
      <<"e","n","d","-","i","f">>, <<"w","h","i","l","e">>, <<"d","o">>,
      <<"e","n","d","-","w","h","i","l","e">>, <<"d","e","f">>,
      <<"e","n","d","-","d","e","f">>, <<"r","e","t","u","r","n">>,
      <<"o","r">>, <<"a","n","d">>, <<"n","o","t">> }

\* the kind of a keyword token is its text
KeywordType(v) ==
    CASE v = <<"i","f">> -> "if"
      [] v = <<"t","h","e","n">> -> "then"
      [] v = <<"e","l","s","e">> -> "else"
      [] v = <<"e","n","d","-","i","f">> -> "end-if"
      [] v = <<"w","h","i","l","e">> -> "while"
      [] v = <<"d","o">> -> "do"
      [] v = <<"e","n","d","-","w","h","i","l","e">> -> "end-while"
      [] v = <<"d","e","f">> -> "def"
      [] v = <<"e","n","d","-","d","e","f">> -> "end-def"
      [] v = <<"r","e","t","u","r","n">> -> "return"
      [] v = <<"o","r">> -> "or"
      [] v = <<"a","n","d">> -> "and"
      [] v = <<"n","o","t">> -> "not"

symbols ==
    { <<"(">>, <<")">>, <<",">>, <<"=">>, <<"[">>, <<"]">>, <<">">>, <<"<">>,
      <<">","=">>, <<"<","=">>, <<"=","=">>, <<"!","=">>,
      <<"+">>, <<"-">>, <<"*">>, <<"/">>, <<"%">> }

SymbolType(v) ==
    CASE v = <<"(">> -> "open-paren"
      [] v = <<")">> -> "close-paren"
      [] v = <<",">> -> "comma"
      [] v = <<"=">> -> "assignment"
      [] v = <<"[">> -> "open-bracket"
      [] v = <<"]">> -> "close-bracket"
      [] v = <<">">> -> "gt"
      [] v = <<"<">> -> "lt"
      [] v = <<">","=">> -> "gteq"
      [] v = <<"<","=">> -> "lteq"
      [] v = <<"=","=">> -> "eq"
      [] v = <<"!","=">> -> "noteq"
      [] v = <<"+">> -> "add"
      [] v = <<"-">> -> "sub"
      [] v = <<"*">> -> "mul"
      [] v = <<"/">> -> "div"
      [] v = <<"%">> -> "mod"

\* [s[0] for s in symbols]
SymbolStarts == { s[1] : s \in symbols }

\* tests['boolean']
IsBooleanLexeme(s) == s \in { <<"t","r","u","e">>, <<"f","a","l","s","e">> }

\* tests['identifier']: str.isidentifier() on the modelled characters
IsIdentifierLexeme(s) ==
    /\ Len(s) > 0
    /\ s[1] \in Letters \cup {"_"}
    /\ \A k \in 1..Len(s) : s[k] \in Letters \cup Digits \cup {"_"}

\* tests['integer']: str.isdigit()
IsIntegerLexeme(s) == Len(s) > 0 /\ \A k \in 1..Len(s) : s[k] \in Digits

\* tests['string']
IsStringLexeme(s) ==
    /\ Len(s) > 0
    /\ s[1] = Quote
    /\ s[Len(s)] = Quote
    /\ IsPrintable(s)

InvalidTokenMark == [type |-> "ErioInvalidTokenError", value |-> <<>>]

\* make_token: the token of a lexeme, or the mark of the raise on line 53
make_token(value) ==
    IF value \in keywords THEN Token(KeywordType(value), value)
    ELSE IF value \in symbols THEN Token(SymbolType(value), value)
    ELSE IF IsBooleanLexeme(value) THEN Token("boolean", value)
    ELSE IF IsIdentifierLexeme(value) THEN Token("identifier", value)
    ELSE IF IsIntegerLexeme(value) THEN Token("integer", value)
    ELSE IF IsStringLexeme(value) THEN Token("string", value)
    ELSE InvalidTokenMark

(***************************************************************************)
(* tokenize: erio.py lines 55-92.  A lexer state is the locals of the      *)
(* generator, the tokens it has yielded and whether make_token raised.     *)
(***************************************************************************)
LexState(buf, ins, emitted, err) ==
    [buffer |-> buf, instring |-> ins, tokens |-> emitted, err |-> err]

LexStart == LexState(<<>>, FALSE, <<>>, FALSE)

\* yield make_token(b): the token is appended, or the generator dies
Emit(ls, b, newbuf, ins) ==
    IF make_token(b) = InvalidTokenMark
    THEN LexState(ls.buffer, ins, ls.tokens, TRUE)
    ELSE LexState(newbuf, ins, Append(ls.tokens, make_token(b)), FALSE)

\* one iteration of `for c in stream` (lines 60-89)
LexChar(ls, c) ==
    IF ls.instring /\ c # Quote
    THEN LexState(ls.buffer \o <<c>>, TRUE, ls.tokens, FALSE)
    ELSE IF c = Quote /\ ls.instring
    THEN Emit(ls, ls.buffer \o <<c>>, <<>>, FALSE)
    ELSE LET ins == (c = Quote)     \* line 72: an opening quote
             b == ls.buffer
         IN  IF b \in symbols /\ (b \o <<c>>) \notin symbols
             THEN Emit(ls, b, Strip(c), ins)
             ELSE IF Len(b) > 0
                     /\ (\/ IsSpace(c)
                         \/ /\ c \in SymbolStarts
                            /\ (b \o <<c>>) \notin symbols
                            /\ b # <<"e","n","d">>)
             THEN Emit(ls, b, Strip(c), ins)
             ELSE LexState(b \o Strip(c), ins, ls.tokens, FALSE)

\* lines 90-92: the buffer left when the stream ends
LexFlush(ls) ==
    IF Len(ls.buffer) > 0
    THEN Emit(ls, ls.buffer, <<>>, ls.instring)
    ELSE ls

RECURSIVE LexFrom(_, _, _)
LexFrom(ls, s, k) ==
    IF ls.err THEN ls
    ELSE IF k > Len(s) THEN LexFlush(ls)
    ELSE LexFrom(LexChar(ls, s[k]), s, k + 1)

\* list(tokenize(s)) with the outcome: the tokens yielded and whether
\* ErioInvalidTokenError was raised
tokenize(s) ==
    LET r == LexFrom(LexStart, s, 1)
    IN  [tokens |-> r.tokens, err |-> r.err]

(***************************************************************************)
(* AST nodes: erio.py lines 94-109.  Field k is the namedtuple's class.    *)
(***************************************************************************)
IfStmnt(cond, then, els) ==
    [k |-> "IfStmnt", cond |-> cond, then |-> then, els |-> els]
WhileStmnt(cond, do) == [k |-> "WhileStmnt", cond |-> cond, do |-> do]
AssignmentStmnt(id, e) == [k |-> "AssignmentStmnt", id |-> id, expr |-> e]
ConstantExpr(value) == [k |-> "ConstantExpr", value |-> value]
VariableExpr(id) == [k |-> "VariableExpr", id |-> id]
SequenceExpr(value) == [k |-> "SequenceExpr", value |-> value]
FunctionCall(id, args) == [k |-> "FunctionCall", id |-> id, args |-> args]
FunctionDef(id, args, body) ==
    [k |-> "FunctionDef", id |-> id, args |-> args, body |-> body]
ReturnStmnt(value) == [k |-> "ReturnStmnt", value |-> value]
\* AddExpr, MulExpr, OrExpr, AndExpr and CompExpr have the same fields
BinaryExpr(cls, op, lhs, rhs) ==
    [k |-> cls, op |-> op, lhs |-> lhs, rhs |-> rhs]
\* NotExpr and SignExpr have the same fields
UnaryExpr(cls, op, rhs) == [k |-> cls, op |-> op, rhs |-> rhs]

(***************************************************************************)
(* parse: erio.py lines 111-290.  The locals `token` and `lookahead` are   *)
(* ts[i] and ts[i+1]; past the end of the stream both are Token('eof',     *)
(* None).  A rule returns how it ended (st), the index of `token` after it *)
(* (i) and the node it built (v).  A stream may end with InvalidTokenMark: *)
(* the lexer raising when that element is pulled.                          *)
(***************************************************************************)
EofToken == Token("eof", <<>>)

TokAt(ts, i) == IF i <= Len(ts) THEN ts[i] ELSE EofToken

PR(st, i, v) == [st |-> st, i |-> i, v |-> v]

\* an exception leaving a rule: no node
Raise(st, i) == PR(st, i, <<>>)

\* next_token (lines 114-117): the shift pulls stream element i + 2
next_token(ts, i) ==
    IF i + 2 <= Len(ts) /\ ts[i + 2] = InvalidTokenMark
    THEN Raise("ErioInvalidTokenError", i)
    ELSE PR("ok", i + 1, <<>>)

\* a ladder with the additive level below the multiplicative one
next_level_swapped(level) ==
    CASE level = "or" -> "and"
      [] level = "and" -> "not"
      [] level = "not" -> "comp"
      [] level = "comp" -> "mul"
      [] level = "mul" -> "add"
      [] level = "add" -> "sign"
      [] level = "sign" -> "atom"

\* the ladder of expr (lines 233-246), lowest precedence first
next_level(level) ==
    CASE level = "or" -> "and"
      [] level = "and" -> "not"
      [] level = "not" -> "comp"
      [] level = "comp" -> "add"
      [] level = "add" -> "mul"
      [] level = "mul" -> "sign"
      [] level = "sign" -> "atom"

expr_type(level) ==
    CASE level = "or" -> "OrExpr"
      [] level = "and" -> "AndExpr"
      [] level = "not" -> "NotExpr"
      [] level = "comp" -> "CompExpr"
      [] level = "add" -> "AddExpr"
      [] level = "mul" -> "MulExpr"
      [] level = "sign" -> "SignExpr"

\* `token.type in token_types`.  ('not'), ('and') and ('or') are strings, not
\* tuples: for them `in` is the substring test.
token_types(level) ==
    CASE level = "or" -> {"", "o", "r", "or"}
      [] level = "and" -> {"", "a", "n", "d", "an", "nd", "and"}
      [] level = "not" -> {"", "n", "o", "t", "no", "ot", "not"}
      [] level = "comp" -> {"eq", "gt", "lt", "gteq", "lteq", "noteq"}
      [] level = "add" -> {"add", "sub"}
      [] level = "mul" -> {"mul", "div", "mod"}
      [] level = "sign" -> {"add", "sub"}

\* a rule continues with K when r ended normally; an exception passes through
PBind(r, K(_)) == IF r.st # "ok" THEN r ELSE K(r)

RECURSIVE statement(_, _), block(_, _, _, _), function_call(_, _),
          call_args(_, _, _), function_def(_, _), def_params(_, _, _),
          if_stmnt(_, _), while_stmnt(_, _), level_expr(_, _, _),
          build_tree(_, _, _, _), unary_op(_, _, _), atom(_, _),
          sequence_expr(_, _), seq_elems(_, _, _), enclosure_expr(_, _)

\* expr (line 247)
expr(ts, i) == level_expr(ts, i, "or")

\* the rule of one level: binary_op (209-217), unary_op (221-230) or atom
level_expr(ts, i, level) ==
    IF level = "atom" THEN atom(ts, i)
    ELSE IF level \in {"not", "sign"} THEN unary_op(ts, i, level)
    ELSE PBind(level_expr(ts, i, next_level(level)),
               LAMBDA l : build_tree(ts, l.i, level, l.v))

\* build_tree (lines 210-216)
build_tree(ts, i, level, lhs) ==
    IF TokAt(ts, i).type \notin token_types(level) THEN PR("ok", i, lhs)
    ELSE PBind(next_token(ts, i), LAMBDA n :     \* op keyword
         PBind(level_expr(ts, n.i, next_level(level)), LAMBDA r :
         build_tree(ts, r.i, level,
                    BinaryExpr(expr_type(level), TokAt(ts, i), lhs, r.v))))

\* unary_op (lines 221-230): the first operator read is the outermost node
unary_op(ts, i, level) ==
    IF TokAt(ts, i).type \notin token_types(level)
    THEN level_expr(ts, i, next_level(level))
    ELSE PBind(next_token(ts, i), LAMBDA n :     \* op keyword
         PBind(unary_op(ts, n.i, level), LAMBDA r :
         PR("ok", r.i, UnaryExpr(expr_type(level), TokAt(ts, i), r.v))))

\* constant_expr (lines 263-266)
constant_expr(ts, i) ==
    PBind(next_token(ts, i), LAMBDA n :
    PR("ok", n.i, ConstantExpr(TokAt(ts, i))))

\* variable_expr (lines 268-271)
variable_expr(ts, i) ==
    PBind(next_token(ts, i), LAMBDA n :
    PR("ok", n.i, VariableExpr(TokAt(ts, i))))

\* atom (lines 249-261)
atom(ts, i) ==
    LET t == TokAt(ts, i).type
    IN  IF t \in {"string", "integer", "boolean"} THEN constant_expr(ts, i)
        ELSE IF t = "identifier"
        THEN IF TokAt(ts, i + 1).type = "open-paren"
             THEN function_call(ts, i)
             ELSE variable_expr(ts, i)
        ELSE IF t = "open-bracket" THEN sequence_expr(ts, i)
        ELSE IF t = "open-paren" THEN enclosure_expr(ts, i)
        ELSE Raise("ErioSyntaxError", i)

\* sequence_expr (lines 273-281)
sequence_expr(ts, i) ==
    PBind(next_token(ts, i), LAMBDA n :          \* open-bracket
    PBind(seq_elems(ts, n.i, <<>>), LAMBDA es :
    PBind(next_token(ts, es.i), LAMBDA c :       \* close-bracket
    PR("ok", c.i, SequenceExpr(es.v)))))

\* the while loop of sequence_expr (lines 276-279)
seq_elems(ts, i, acc) ==
    IF TokAt(ts, i).type = "close-bracket" THEN PR("ok", i, acc)
    ELSE PBind(expr(ts, i), LAMBDA e :
         IF TokAt(ts, e.i).type = "comma"
         THEN PBind(next_token(ts, e.i), LAMBDA n :     \* comma
              seq_elems(ts, n.i, Append(acc, e.v)))
         ELSE seq_elems(ts, e.i, Append(acc, e.v)))

\* enclosure_expr (lines 283-287): neither next_token looks at what it drops
enclosure_expr(ts, i) ==
    PBind(next_token(ts, i), LAMBDA n :          \* open-paren
    PBind(expr(ts, n.i), LAMBDA e :
    PBind(next_token(ts, e.i), LAMBDA c :        \* close-paren
    PR("ok", c.i, e.v))))

\* function_call (lines 141-151)
function_call(ts, i) ==
    PBind(next_token(ts, i), LAMBDA n1 :         \* identifier
    PBind(next_token(ts, n1.i), LAMBDA n2 :      \* open-paren
    PBind(call_args(ts, n2.i, <<>>), LAMBDA as :
    PBind(next_token(ts, as.i), LAMBDA c :       \* close-paren
    PR("ok", c.i, FunctionCall(TokAt(ts, i), as.v))))))

\* the while loop of function_call (lines 146-149)
call_args(ts, i, acc) ==
    IF TokAt(ts, i).type = "close-paren" THEN PR("ok", i, acc)
    ELSE PBind(expr(ts, i), LAMBDA e :
         IF TokAt(ts, e.i).type = "comma"
         THEN PBind(next_token(ts, e.i), LAMBDA n :     \* comma
              call_args(ts, n.i, Append(acc, e.v)))
         ELSE call_args(ts, e.i, Append(acc, e.v)))

\* `while token.type not in enders: body.append(statement())`
\* (lines 166-167, 180-181, 185-186, 195-196)
block(ts, i, acc, enders) ==
    IF TokAt(ts, i).type \in enders THEN PR("ok", i, acc)
    ELSE PBind(statement(ts, i), LAMBDA s :
         block(ts, s.i, Append(acc, s.v), enders))

\* the while loop of function_def (lines 159-163).  Once `token` is eof it
\* stays eof: the loop appends it for ever ("hang").
def_params(ts, i, acc) ==
    IF TokAt(ts, i).type = "close-paren" THEN PR("ok", i, acc)
    ELSE IF i > Len(ts) THEN Raise("hang", i)
    ELSE PBind(next_token(ts, i), LAMBDA n :     \* identifier
         IF TokAt(ts, n.i).type = "comma"
         THEN PBind(next_token(ts, n.i), LAMBDA m :     \* comma
              def_params(ts, m.i, Append(acc, TokAt(ts, i))))
         ELSE def_params(ts, n.i, Append(acc, TokAt(ts, i))))

\* function_def (lines 153-169)
function_def(ts, i) ==
    PBind(next_token(ts, i), LAMBDA n1 :         \* def
    PBind(next_token(ts, n1.i), LAMBDA n2 :      \* identifier
    PBind(next_token(ts, n2.i), LAMBDA n3 :      \* open-paren
    PBind(def_params(ts, n3.i, <<>>), LAMBDA ps :
    PBind(next_token(ts, ps.i), LAMBDA c :       \* close-paren
    PBind(block(ts, c.i, <<>>, {"end-def"}), LAMBDA b :
    PBind(next_token(ts, b.i), LAMBDA e :        \* end-def
    PR("ok", e.i, FunctionDef(TokAt(ts, n1.i), ps.v, b.v)))))))))

\* return_stmnt (lines 171-173)
return_stmnt(ts, i) ==
    PBind(next_token(ts, i), LAMBDA n :          \* return
    PBind(expr(ts, n.i), LAMBDA e :
    PR("ok", e.i, ReturnStmnt(e.v))))

\* the rest of if_stmnt once the then block is read (lines 182-188)
if_else(ts, i, cond, then) ==
    IF TokAt(ts, i).type = "else"
    THEN PBind(next_token(ts, i), LAMBDA e :                    \* else
         PBind(block(ts, e.i, <<>>, {"end-if"}), LAMBDA el :
         PBind(next_token(ts, el.i), LAMBDA f :                 \* end-if
         PR("ok", f.i, IfStmnt(cond, then, el.v)))))
    ELSE PBind(next_token(ts, i), LAMBDA f :                    \* end-if
         PR("ok", f.i, IfStmnt(cond, then, <<>>)))

\* if_stmnt (lines 175-188)
if_stmnt(ts, i) ==
    PBind(next_token(ts, i), LAMBDA n :          \* if
    PBind(expr(ts, n.i), LAMBDA cond :
    PBind(next_token(ts, cond.i), LAMBDA t :     \* then
    PBind(block(ts, t.i, <<>>, {"else", "end-if"}), LAMBDA th :
    if_else(ts, th.i, cond.v, th.v)))))

\* while_stmnt (lines 190-198)
while_stmnt(ts, i) ==
    PBind(next_token(ts, i), LAMBDA n :          \* while
    PBind(expr(ts, n.i), LAMBDA cond :
    PBind(next_token(ts, cond.i), LAMBDA d :     \* do
    PBind(block(ts, d.i, <<>>, {"end-while"}), LAMBDA b :
    PBind(next_token(ts, b.i), LAMBDA e :        \* end-while
    PR("ok", e.i, WhileStmnt(cond.v, b.v)))))))

\* assignment_stmnt (lines 200-205)
assignment_stmnt(ts, i) ==
    PBind(next_token(ts, i), LAMBDA n1 :         \* identifier
    PBind(next_token(ts, n1.i), LAMBDA n2 :      \* assignment operator
    PBind(expr(ts, n2.i), LAMBDA e :
    PR("ok", e.i, AssignmentStmnt(TokAt(ts, i), e.v)))))

\* statement (lines 125-139)
statement(ts, i) ==
    LET t == TokAt(ts, i).type
    IN  IF t = "if" THEN if_stmnt(ts, i)
        ELSE IF t = "while" THEN while_stmnt(ts, i)
        ELSE IF t = "def" THEN function_def(ts, i)
        ELSE IF t = "return" THEN return_stmnt(ts, i)
        ELSE IF t = "identifier" /\ TokAt(ts, i + 1).type = "assignment"
        THEN assignment_stmnt(ts, i)
        ELSE IF t = "identifier" /\ TokAt(ts, i + 1).type = "open-paren"
        THEN function_call(ts, i)
        ELSE Raise("ErioSyntaxError", i)

\* a top level that takes every statement
any_statement(ts, i) == statement(ts, i)

\* top_level_statement (lines 119-123)
top_level_statement(ts, i) ==
    IF TokAt(ts, i).type = "return"
    THEN Raise("ErioSyntaxError", i)
    ELSE statement(ts, i)

\* lines 112-113: the first two pulls have no default.  A stream of fewer
\* than two tokens raises StopIteration inside the generator, which Python
\* turns into RuntimeError; the lexer's own error passes through.
parse_start(ts) ==
    IF \E k \in 1..2 : k <= Len(ts) /\ ts[k] = InvalidTokenMark
    THEN Raise("ErioInvalidTokenError", 0)
    ELSE IF Len(ts) < 2 THEN Raise("RuntimeError", 0)
    ELSE PR("ok", 1, <<>>)

(***************************************************************************)
(* Runtime values: erio.py lines 292-296.  A Sequence holds a reference to *)
(* a Python list (an index of the heap); a Function holds a reference to   *)
(* the Namespace it was defined in (an index of frames).  NoneVal is       *)
(* Python's None; SinkVal is the stream bound to '.out'.                   *)
(***************************************************************************)
Integer(val) == [t |-> "Integer", val |-> val]
String(val) == [t |-> "String", val |-> val]
Boolean(val) == [t |-> "Boolean", val |-> val]
Sequence(ref) == [t |-> "Sequence", ref |-> ref]
Function(env, args, body) ==
    [t |-> "Function", env |-> env, args |-> args, body |-> body]
NoneVal == [t |-> "None"]
SinkVal == [t |-> "StringIO"]

\* the values with a `val` attribute
HasVal(v) == v.t \in {"Integer", "String", "Boolean", "Sequence"}

\* bool is a subclass of int: True is 1 and False is 0 in ==, <, +, indexing
IsNumber(v) == v.t \in {"Integer", "Boolean"}
Number(v) == IF v.t = "Boolean" THEN (IF v.val THEN 1 ELSE 0) ELSE v.val

\* `if ret:` on a runtime value: a namedtuple is a non-empty tuple, so every
\* value is true; only None is false
PyTruth(v) == v.t # "None"

\* int(token.value) of a digit string
RECURSIVE IntOfDigits(_)
IntOfDigits(s) ==
    IF Len(s) = 0 THEN 0
    ELSE 10 * IntOfDigits(SubSeq(s, 1, Len(s) - 1))
         + (CHOOSE d \in 0..9 :
               <<"0","1","2","3","4","5","6","7","8","9">>[d + 1] = s[Len(s)])

\* str(n) of an integer
RECURSIVE DigitsOfNat(_)
DigitsOfNat(n) ==
    LET d == <<"0","1","2","3","4","5","6","7","8","9">>[(n % 10) + 1]
    IN  IF n < 10 THEN <<d>> ELSE DigitsOfNat(n \div 10) \o <<d>>

StrOfInt(n) == IF n < 0 THEN <<"-">> \o DigitsOfNat(-n) ELSE DigitsOfNat(n)

\* integer division that rounds toward zero
TruncDiv(a, b) ==
    LET qa == (IF a < 0 THEN 0 - a ELSE a) \div (IF b < 0 THEN 0 - b ELSE b)
    IN  IF (a < 0) = (b < 0) THEN qa ELSE 0 - qa

\* operator.floordiv and operator.mod on integers, b # 0
PyFloorDiv(a, b) == IF b > 0 THEN a \div b ELSE (-a) \div (-b)
PyMod(a, b) == a - b * PyFloorDiv(a, b)

(***************************************************************************)
(* Namespace: erio.py lines 298-314.                                       *)
(***************************************************************************)
Namespace(vs, parent) == [vars |-> vs, parent |-> parent]

\* Namespace.__contains__
RECURSIVE Contains(_, _, _)
Contains(fr, env, key) ==
    \/ key \in DOMAIN fr[env].vars
    \/ fr[env].parent # 0 /\ Contains(fr, fr[env].parent, key)

\* Namespace.__getitem__ of a key the namespace contains
RECURSIVE GetItem(_, _, _)
GetItem(fr, env, key) ==
    IF key \notin DOMAIN fr[env].vars /\ fr[env].parent # 0
       /\ Contains(fr, fr[env].parent, key)
    THEN GetItem(fr, fr[env].parent, key)
    ELSE fr[env].vars[key]

\* a store that rebinds the name in the nearest frame of the chain that
\* has it, and binds it in env only when no frame has it
RECURSIVE SetItemOuter(_, _, _, _)
SetItemOuter(fr, env, key, v) ==
    IF key \notin DOMAIN fr[env].vars /\ fr[env].parent # 0
       /\ Contains(fr, fr[env].parent, key)
    THEN SetItemOuter(fr, fr[env].parent, key, v)
    ELSE [fr EXCEPT ![env].vars =
             [n \in DOMAIN fr[env].vars \cup {key} |->
                 IF n = key THEN v ELSE fr[env].vars[n]]]

\* dict.__setitem__ on namespace env
SetItem(fr, env, key, v) ==
    [fr EXCEPT ![env].vars =
        [n \in DOMAIN fr[env].vars \cup {key} |->
            IF n = key THEN v ELSE fr[env].vars[n]]]

(***************************************************************************)
(* build_global_environment: erio.py lines 316-367.                        *)
(***************************************************************************)
n_out == <<".","o","u","t">>
n_print == <<"p","r","i","n","t">>
n_add == <<"a","d","d">>
n_sub == <<"s","u","b">>
n_lt == <<"l","t">>
n_eq == <<"e","q">>
n_geti == <<"g","e","t","i">>
n_seti == <<"s","e","t","i">>
n_len == <<"l","e","n">>
n_insert == <<"i","n","s","e","r","t">>
n_s == <<"s">>
n_lhs == <<"l","h","s">>
n_rhs == <<"r","h","s">>
n_seq == <<"s","e","q">>
n_i == <<"i">>
n_value == <<"v","a","l","u","e">>

\* a primitive's body is its name
Primitive(name, argnames) ==
    Function(1, argnames, [prim |-> TRUE, name |-> name])

GlobalVars ==
    [n \in {n_out, n_print, n_add, n_sub, n_lt, n_eq, n_geti, n_seti, n_len,
            n_insert} |->
        CASE n = n_out -> SinkVal
          [] n = n_print -> Primitive(n, <<n_s>>)
          [] n \in {n_add, n_sub, n_lt, n_eq} -> Primitive(n, <<n_lhs, n_rhs>>)
          [] n = n_geti -> Primitive(n, <<n_seq, n_i>>)
          [] n = n_len -> Primitive(n, <<n_seq>>)
          [] n \in {n_seti, n_insert} -> Primitive(n, <<n_seq, n_i, n_value>>)]

build_global_environment == <<Namespace(GlobalVars, 0)>>

(***************************************************************************)
(* execute: erio.py lines 369-523.  An evaluation state es holds the       *)
(* objects execution can change; a rule returns how it ended (st), the     *)
(* state after it (es) and its value (v).  Operations on operand types     *)
(* that the modelled programs never combine end with st "unmodelled".      *)
(***************************************************************************)
ER(st, es, v) == [st |-> st, es |-> es, v |-> v]

\* true (lines 370-371): obj.val == True.  Python's 1 == True holds.
true(obj) ==
    CASE obj.t = "Boolean" -> obj.val
      [] obj.t = "Integer" -> obj.val = 1
      [] OTHER -> FALSE

\* operator.eq .. operator.ne on two raw values (lines 470-476)
Compare(op, a, b) ==
    IF IsNumber(a) /\ IsNumber(b)
    THEN [st |-> "ok", v |->
            CASE op = "eq" -> Number(a) = Number(b)
              [] op = "noteq" -> Number(a) # Number(b)
              [] op = "lt" -> Number(a) < Number(b)
              [] op = "gt" -> Number(a) > Number(b)
              [] op = "lteq" -> Number(a) <= Number(b)
              [] op = "gteq" -> Number(a) >= Number(b)]
    ELSE IF op \in {"eq", "noteq"} /\ a.t = "String" /\ b.t = "String"
    THEN [st |-> "ok", v |-> (op = "eq") <=> (a.val = b.val)]
    ELSE IF op \in {"eq", "noteq"} /\ a.t # b.t
    THEN [st |-> "ok", v |-> op = "noteq"]
    ELSE IF a.t # b.t THEN [st |-> "TypeError", v |-> FALSE]
    ELSE [st |-> "unmodelled", v |-> FALSE]

\* operator.add .. operator.mod on two raw values (lines 482-487)
Arith(op, a, b) ==
    IF IsNumber(a) /\ IsNumber(b)
    THEN IF op \in {"div", "mod"} /\ Number(b) = 0
         THEN [st |-> "ZeroDivisionError", v |-> 0]
         ELSE [st |-> "ok", v |->
                 CASE op = "add" -> Number(a) + Number(b)
                   [] op = "sub" -> Number(a) - Number(b)
                   [] op = "mul" -> Number(a) * Number(b)
                   [] op = "div" -> PyFloorDiv(Number(a), Number(b))
                   [] op = "mod" -> PyMod(Number(a), Number(b))]
    ELSE [st |-> "unmodelled", v |-> 0]

\* eval_const (lines 506-515)
eval_const(es, token) ==
    IF token.type = "string"
    THEN ER("ok", es, String(SubSeq(token.value, 2, Len(token.value) - 1)))
    ELSE IF token.type = "integer"
    THEN ER("ok", es, Integer(IntOfDigits(token.value)))
    ELSE IF token.type = "boolean"
    THEN ER("ok", es, Boolean(token.value = <<"t","r","u","e">>))
    ELSE ER("ErioRuntimeError", es, NoneVal)

\* eval_var (lines 517-518) and the lookup of line 500: env[name]
eval_var(es, env, token) ==
    IF Contains(es.frames, env, token.value)
    THEN ER("ok", es, GetItem(es.frames, env, token.value))
    ELSE ER("KeyError", es, NoneVal)

\* list.insert(i, v): i is clamped to 0..len
ListInsert(lst, i, v) ==
    LET n == Len(lst)
        j == IF i < 0 THEN (IF i + n < 0 THEN 0 ELSE i + n)
             ELSE IF i > n THEN n ELSE i
    IN  SubSeq(lst, 1, j) \o <<v>> \o SubSeq(lst, j + 1, n)

\* a store into a copy of the list: the list object at ref is left as it was
list_store_copy(hp, ref, lst) == hp

\* the list object at ref becomes lst: Sequence values hold the reference,
\* so every holder sees the change
list_store(hp, ref, lst) == [hp EXCEPT ![ref] = lst]

\* a Python index into a list of length n, as a 1-based position; 0: IndexError
ListIndex(n, i) ==
    IF 0 <= i /\ i < n THEN i + 1
    ELSE IF -n <= i /\ i < 0 THEN n + i + 1
    ELSE 0

\* lookups of a primitive's parameters in its call frame
Arg(es, runenv, name) == GetItem(es.frames, runenv, name)
HasArgs(es, runenv, names) == \A n \in names : Contains(es.frames, runenv, n)

\* _print (lines 326-333)
prim_print(es, runenv) ==
    IF ~HasArgs(es, runenv, {n_s}) THEN ER("KeyError", es, NoneVal)
    ELSE LET s == Arg(es, runenv, n_s)
             write(text) == ER("ok", [es EXCEPT !.out = es.out \o text], NoneVal)
         IN  IF s.t = "Boolean"
             THEN write(IF s.val THEN <<"t","r","u","e">>
                                 ELSE <<"f","a","l","s","e">>)
             ELSE IF ~HasVal(s) THEN ER("AttributeError", es, NoneVal)
             ELSE IF s.t = "Integer" THEN write(StrOfInt(s.val))
             ELSE IF s.t = "String" THEN write(s.val)
             ELSE IF es.heap[s.ref] = <<>> THEN write(<<"[","]">>)
             ELSE ER("unmodelled", es, NoneVal)

\* _add, _sub, _lt, _eq (lines 335-349)
prim_binary(es, runenv, name) ==
    IF ~HasArgs(es, runenv, {n_lhs}) THEN ER("KeyError", es, NoneVal)
    ELSE IF ~HasVal(Arg(es, runenv, n_lhs)) THEN ER("AttributeError", es, NoneVal)
    ELSE IF ~HasArgs(es, runenv, {n_rhs}) THEN ER("KeyError", es, NoneVal)
    ELSE IF ~HasVal(Arg(es, runenv, n_rhs)) THEN ER("AttributeError", es, NoneVal)
    ELSE LET a == Arg(es, runenv, n_lhs)
             b == Arg(es, runenv, n_rhs)
         IN  IF name \in {n_add, n_sub}
             THEN LET r == Arith(IF name = n_add THEN "add" ELSE "sub", a, b)
                  IN  ER(r.st, es, IF r.st = "ok" THEN Integer(r.v) ELSE NoneVal)
             ELSE LET r == Compare(IF name = n_lt THEN "lt" ELSE "eq", a, b)
                  IN  ER(r.st, es, IF r.st = "ok" THEN Boolean(r.v) ELSE NoneVal)

\* _geti, _seti, _insert (lines 351-357, 363-365)
prim_index(es, runenv, name) ==
    IF name = n_seti /\ ~HasArgs(es, runenv, {n_value})
    THEN ER("KeyError", es, NoneVal)     \* the right-hand side comes first
    ELSE IF ~HasArgs(es, runenv, {n_seq}) THEN ER("KeyError", es, NoneVal)
    ELSE IF ~HasVal(Arg(es, runenv, n_seq)) THEN ER("AttributeError", es, NoneVal)
    ELSE IF name = n_insert /\ Arg(es, runenv, n_seq).t # "Sequence"
    THEN ER("AttributeError", es, NoneVal)
    ELSE IF ~HasArgs(es, runenv, {n_i}) THEN ER("KeyError", es, NoneVal)
    ELSE IF ~HasVal(Arg(es, runenv, n_i)) THEN ER("AttributeError", es, NoneVal)
    ELSE IF name # n_geti /\ ~HasArgs(es, runenv, {n_value})
    THEN ER("KeyError", es, NoneVal)
    ELSE LET seq == Arg(es, runenv, n_seq)
             i == Arg(es, runenv, n_i)
         IN  IF seq.t # "Sequence"
             THEN ER(IF seq.t = "String" /\ name = n_geti
                     THEN "unmodelled" ELSE "TypeError", es, NoneVal)
             ELSE IF ~IsNumber(i) THEN ER("TypeError", es, NoneVal)
             ELSE LET lst == es.heap[seq.ref]
                      k == ListIndex(Len(lst), Number(i))
                  IN  IF name = n_insert
                      THEN ER("ok",
                              [es EXCEPT !.heap = list_store(es.heap, seq.ref,
                                  ListInsert(lst, Number(i),
                                             Arg(es, runenv, n_value)))],
                              NoneVal)
                      ELSE IF k = 0 THEN ER("IndexError", es, NoneVal)
                      ELSE IF name = n_geti THEN ER("ok", es, lst[k])
                      ELSE ER("ok",
                              [es EXCEPT !.heap = list_store(es.heap, seq.ref,
                                  [lst EXCEPT ![k] = Arg(es, runenv, n_value)])],
                              NoneVal)

\* _len (lines 359-361)
prim_len(es, runenv) ==
    IF ~HasArgs(es, runenv, {n_seq}) THEN ER("KeyError", es, NoneVal)
    ELSE LET seq == Arg(es, runenv, n_seq)
         IN  IF ~HasVal(seq) THEN ER("AttributeError", es, NoneVal)
             ELSE IF seq.t = "Sequence"
             THEN ER("ok", es, Integer(Len(es.heap[seq.ref])))
             ELSE IF seq.t = "String" THEN ER("ok", es, Integer(Len(seq.val)))
             ELSE ER("TypeError", es, NoneVal)

\* the call of a primitive's original_func
primitive(es, runenv, name) ==
    IF name = n_print THEN prim_print(es, runenv)
    ELSE IF name \in {n_add, n_sub, n_lt, n_eq} THEN prim_binary(es, runenv, name)
    ELSE IF name = n_len THEN prim_len(es, runenv)
    ELSE prim_index(es, runenv, name)

\* one more loop iteration or call
Tick(es) == [es EXCEPT !.steps = es.steps + 1]

\* dynamic scoping: the parent of a call frame is the caller's frame
runenv_parent_caller(func, env) == env

\* Namespace(parent=func.env) (line 502): the parent of a call frame
runenv_parent(func, env) == func.env

\* lines 502-503: the call frame, with zip(func.args, evald_args) bound
RECURSIVE Zip(_, _, _)
Zip(names, vals, k) ==
    IF k = 0 THEN << >>
    ELSE LET rest == Zip(names, vals, k - 1)
         IN  [n \in DOMAIN rest \cup {names[k]} |->
                 IF n = names[k] THEN vals[k] ELSE rest[n]]

Min(a, b) == IF a < b THEN a ELSE b

NewFrame(es, func, env, args) ==
    [es EXCEPT !.frames =
        Append(es.frames,
               Namespace(Zip(func.args, args, Min(Len(func.args), Len(args))),
                         runenv_parent(func, env)))]

\* a rule continues with K when r ended normally; an exception passes through
EBind(r, K(_)) == IF r.st # "ok" THEN r ELSE K(r)

\* the read of `.val` on the value of r (lines 371, 477-478, 488-489, 494):
\* None, a Function and the sink have no such attribute
Operand(r) ==
    IF r.st = "ok" /\ ~HasVal(r.v) THEN ER("AttributeError", r.es, NoneVal)
    ELSE r

RECURSIVE exec_block(_, _, _, _), exec_statement(_, _, _), exec_if(_, _, _),
          exec_while(_, _, _), eval_expr(_, _, _), eval_or(_, _, _),
          eval_and(_, _, _), eval_not(_, _, _), eval_comp(_, _, _),
          eval_arith(_, _, _), eval_sign(_, _, _), eval_func_call(_, _, _),
          eval_list(_, _, _, _, _), eval_seq(_, _, _)

\* exec_block (lines 373-378) from statement k of the block on
exec_block(es, env, blk, k) ==
    IF k > Len(blk) THEN ER("ok", es, NoneVal)
    ELSE EBind(exec_statement(es, env, blk[k]), LAMBDA r :
         IF PyTruth(r.v) THEN r
         ELSE exec_block(r.es, env, blk, k + 1))

\* exec_assign (lines 411-412)
exec_assign(es, env, stm) ==
    EBind(eval_expr(es, env, stm.expr), LAMBDA r :
    ER("ok",
       [r.es EXCEPT !.frames = SetItem(r.es.frames, env, stm.id.value, r.v)],
       NoneVal))

\* exec_func_def (lines 414-419): args are the parameter tokens' values
exec_func_def(es, env, func_def) ==
    ER("ok",
       [es EXCEPT !.frames =
           SetItem(es.frames, env, func_def.id.value,
                   Function(env,
                            [j \in 1..Len(func_def.args) |-> func_def.args[j].value],
                            [prim |-> FALSE, body |-> func_def.body]))],
       NoneVal)

\* exec_return (lines 421-422)
exec_return(es, env, stm) == eval_expr(es, env, stm.value)

\* exec_statement (lines 380-396): only if, while and return set ret
exec_statement(es, env, stm) ==
    CASE stm.k = "IfStmnt" -> exec_if(es, env, stm)
      [] stm.k = "WhileStmnt" -> exec_while(es, env, stm)
      [] stm.k = "ReturnStmnt" -> exec_return(es, env, stm)
      [] stm.k = "AssignmentStmnt" -> exec_assign(es, env, stm)
      [] stm.k = "FunctionCall" ->
            EBind(eval_func_call(es, env, stm), LAMBDA r :
            ER("ok", r.es, NoneVal))
      [] stm.k = "FunctionDef" -> exec_func_def(es, env, stm)
      [] OTHER -> ER("ok", es, NoneVal)

\* exec_if (lines 398-404)
exec_if(es, env, stm) ==
    EBind(Operand(eval_expr(es, env, stm.cond)), LAMBDA c :
    EBind(exec_block(c.es, env, IF true(c.v) THEN stm.then ELSE stm.els, 1),
          LAMBDA r :
    IF PyTruth(r.v) THEN r ELSE ER("ok", r.es, NoneVal)))

\* exec_while (lines 406-409)
exec_while(es, env, stm) ==
    EBind(Operand(eval_expr(es, env, stm.cond)), LAMBDA c :
    IF ~true(c.v) THEN ER("ok", c.es, NoneVal)
    ELSE IF c.es.steps >= MaxSteps THEN ER("MaxSteps", c.es, NoneVal)
    ELSE EBind(exec_block(Tick(c.es), env, stm.do, 1), LAMBDA r :
         IF PyTruth(r.v) THEN r
         ELSE exec_while(r.es, env, stm)))

\* eval_expr (lines 424-446)
eval_expr(es, env, e) ==
    CASE e.k = "ConstantExpr" -> eval_const(es, e.value)
      [] e.k = "VariableExpr" -> eval_var(es, env, e.id)
      [] e.k = "SequenceExpr" -> eval_seq(es, env, e.value)
      [] e.k = "OrExpr" -> eval_or(es, env, e)
      [] e.k = "AndExpr" -> eval_and(es, env, e)
      [] e.k = "NotExpr" -> eval_not(es, env, e)
      [] e.k = "CompExpr" -> eval_comp(es, env, e)
      [] e.k \in {"MulExpr", "AddExpr"} -> eval_arith(es, env, e)
      [] e.k = "SignExpr" -> eval_sign(es, env, e)
      [] e.k = "FunctionCall" -> eval_func_call(es, env, e)
      [] OTHER -> ER("ErioRuntimeError", es, NoneVal)

\* eval_or (lines 448-455)
eval_or(es, env, e) ==
    EBind(Operand(eval_expr(es, env, e.lhs)), LAMBDA l :
    IF true(l.v) THEN l
    ELSE EBind(Operand(eval_expr(l.es, env, e.rhs)), LAMBDA r :
         IF true(r.v) THEN r
         ELSE ER("ok", r.es, Boolean(FALSE))))

\* eval_and (lines 457-464)
eval_and(es, env, e) ==
    EBind(Operand(eval_expr(es, env, e.lhs)), LAMBDA l :
    IF ~true(l.v) THEN ER("ok", l.es, Boolean(FALSE))
    ELSE EBind(Operand(eval_expr(l.es, env, e.rhs)), LAMBDA r :
         IF ~true(r.v) THEN ER("ok", r.es, Boolean(FALSE))
         ELSE r))

\* eval_not (lines 466-467)
eval_not(es, env, e) ==
    EBind(Operand(eval_expr(es, env, e.rhs)), LAMBDA r :
    ER("ok", r.es, Boolean(~true(r.v))))

\* the outcome c of an operator as a result, its value wrapped by Wrap
Wrapped(c, es, Wrap(_)) ==
    ER(c.st, es, IF c.st = "ok" THEN Wrap(c.v) ELSE NoneVal)

\* eval_comp (lines 469-479): each operand is evaluated and its val read
\* before the next one is evaluated
eval_comp(es, env, e) ==
    EBind(Operand(eval_expr(es, env, e.lhs)), LAMBDA l :
    EBind(Operand(eval_expr(l.es, env, e.rhs)), LAMBDA r :
    Wrapped(Compare(e.op.type, l.v, r.v), r.es, Boolean)))

\* eval_arith (lines 481-490)
eval_arith(es, env, e) ==
    EBind(Operand(eval_expr(es, env, e.lhs)), LAMBDA l :
    EBind(Operand(eval_expr(l.es, env, e.rhs)), LAMBDA r :
    Wrapped(Arith(e.op.type, l.v, r.v), r.es, Integer)))

\* eval_sign (lines 492-497)
eval_sign(es, env, e) ==
    EBind(Operand(eval_expr(es, env, e.rhs)), LAMBDA r :
    IF ~IsNumber(r.v) THEN ER("TypeError", r.es, NoneVal)
    ELSE ER("ok", r.es,
            Integer(IF e.op.type = "sub" THEN -Number(r.v) ELSE Number(r.v))))

\* [eval_expr(a) for a in exprs] (lines 501, 521), left to right from k on
eval_list(es, env, exprs, k, acc) ==
    IF k > Len(exprs) THEN ER("ok", es, acc)
    ELSE EBind(eval_expr(es, env, exprs[k]), LAMBDA r :
         eval_list(r.es, env, exprs, k + 1, Append(acc, r.v)))

\* eval_seq (lines 520-521): a new list object
eval_seq(es, env, elems) ==
    EBind(eval_list(es, env, elems, 1, <<>>), LAMBDA r :
    ER("ok", [r.es EXCEPT !.heap = Append(r.es.heap, r.v)],
       Sequence(Len(r.es.heap) + 1)))

\* lines 502-504: the call of func on the evaluated arguments
call(es, env, func, args) ==
    IF func.t # "Function" THEN ER("AttributeError", es, NoneVal)
    ELSE IF es.steps >= MaxSteps THEN ER("MaxSteps", es, NoneVal)
    ELSE IF func.body.prim
    THEN primitive(NewFrame(Tick(es), func, env, args),
                   Len(es.frames) + 1, func.body.name)
    ELSE exec_block(NewFrame(Tick(es), func, env, args),
                    Len(es.frames) + 1, func.body.body, 1)

\* eval_func_call (lines 499-504)
eval_func_call(es, env, func_call) ==
    EBind(eval_var(es, env, func_call.id), LAMBDA f :
    EBind(eval_list(es, env, func_call.args, 1, <<>>), LAMBDA as :
    call(as.es, env, f.v, as.v)))

(***************************************************************************)
(* LexSpec: list(tokenize(stream)), one action per character of the        *)
(* stream and one for the code after the loop.                             *)
(***************************************************************************)
LexAlphabet == {" ", "\t", "\n", "a", "1", "=", Quote}

\* longer inputs, with the hyphenated keywords and two-character symbols
LexSamples ==
    { <<"e","n","d","-","i","f"," ","a">>,
      <<"e","n","d"," ","-","i","f">>,
      <<"a","\n","=","\t","1","-","1">>,
      <<"a"," ","<","="," ","1","\n">>,
      <<"a","="," ",Quote,"a"," "," ","b",Quote,"\n">>,
      <<" ","i","f","\t","a","!","=","1">>,
      <<"a"," ","$"," ","1">> }


\* an identifier or integer lexeme, then a symbol, with and without a blank
\* between them, and the hyphenated keywords
SymbolLexemes ==
    { <<"a">>, <<"a","1">>, <<"1","2">>, <<"e">>, <<"e","n">>,
      <<"e","n","d">>, <<"e","n","d","s">>, <<"s","e","n","d">> }
Separators == { <<>>, <<" ">> }
SymbolStreams ==
    { L \o sep \o S : L \in SymbolLexemes, sep \in Separators, S \in symbols }
HyphenatedKeywords ==
    { <<"e","n","d","-","i","f">>,
      <<"e","n","d","-","w","h","i","l","e">>,
      <<"e","n","d","-","d","e","f">> }

IdleLex ==
    /\ stream = <<>>
    /\ pos = 1
    /\ buffer = <<>>
    /\ instring = FALSE
    /\ tokens = <<>>

IdleParse ==
    /\ toks = <<>>
    /\ ti = 0
    /\ stmts = <<>>

IdleExec ==
    /\ frames = build_global_environment
    /\ heap = <<>>
    /\ out = <<>>
    /\ steps = 0

LexInit ==
    /\ \/ \E n \in 0..MaxLen : stream \in [1..n -> LexAlphabet]
       \/ stream \in LexSamples
       \/ stream \in SymbolStreams \cup HyphenatedKeywords
    /\ pos = 1
    /\ buffer = LexStart.buffer
    /\ instring = LexStart.instring
    /\ tokens = LexStart.tokens
    /\ status = "run"
    /\ IdleParse
    /\ IdleExec

LexNow == LexState(buffer, instring, tokens, FALSE)

\* one iteration of the for loop of tokenize
LexStep ==
    /\ status = "run"
    /\ pos <= Len(stream)
    /\ LET ls == LexChar(LexNow, stream[pos])
       IN  /\ buffer' = ls.buffer
           /\ instring' = ls.instring
           /\ tokens' = ls.tokens
           /\ status' = IF ls.err THEN "ErioInvalidTokenError" ELSE "run"
    /\ pos' = pos + 1
    /\ UNCHANGED <<stream, parsevars, execvars>>

\* the end of the stream: lines 90-92
LexEnd ==
    /\ status = "run"
    /\ pos = Len(stream) + 1
    /\ LET ls == LexFlush(LexNow)
       IN  /\ buffer' = ls.buffer
           /\ tokens' = ls.tokens
           /\ status' = IF ls.err THEN "ErioInvalidTokenError" ELSE "done"
    /\ UNCHANGED <<stream, pos, instring, parsevars, execvars>>

LexNext == LexStep \/ LexEnd

LexSpec == LexInit /\ [][LexNext]_vars

(***************************************************************************)
(* Token streams for the parser and the pipeline, written with the         *)
(* lexemes' tokens.                                                        *)
(***************************************************************************)
tIf == make_token(<<"i","f">>)
tThen == make_token(<<"t","h","e","n">>)
tElse == make_token(<<"e","l","s","e">>)
tEndIf == make_token(<<"e","n","d","-","i","f">>)
tWhile == make_token(<<"w","h","i","l","e">>)
tDo == make_token(<<"d","o">>)
tEndWhile == make_token(<<"e","n","d","-","w","h","i","l","e">>)
tDef == make_token(<<"d","e","f">>)
tEndDef == make_token(<<"e","n","d","-","d","e","f">>)
tReturn == make_token(<<"r","e","t","u","r","n">>)
tOr == make_token(<<"o","r">>)
tAnd == make_token(<<"a","n","d">>)
tNot == make_token(<<"n","o","t">>)
tTrue == make_token(<<"t","r","u","e">>)
tFalse == make_token(<<"f","a","l","s","e">>)
tLP == make_token(<<"(">>)
tRP == make_token(<<")">>)
tLB == make_token(<<"[">>)
tRB == make_token(<<"]">>)
tComma == make_token(<<",">>)
tAssign == make_token(<<"=">>)
tEq == make_token(<<"=","=">>)
tLt == make_token(<<"<">>)
tPlus == make_token(<<"+">>)
tMinus == make_token(<<"-">>)
tStar == make_token(<<"*">>)
tSlash == make_token(<<"/">>)
tPercent == make_token(<<"%">>)
\* the token of a one-character identifier or digit
T(c) == make_token(<<c>>)
\* the token of a name, and of the string literal with text s
Name(n) == make_token(n)
Str(s) == make_token(<<Quote>> \o s \o <<Quote>>)

\* name ( args )
Call(n, args) == <<Name(n), tLP>> \o args \o <<tRP>>
\* print ( "c" )
PrintStr(c) == Call(n_print, <<Str(<<c>>)>>)
\* print ( x )
PrintVar(c) == Call(n_print, <<T(c)>>)
\* x = e
Assign(c, e) == <<T(c), tAssign>> \o e
If(c, a, b) == <<tIf>> \o c \o <<tThen>> \o a \o <<tElse>> \o b \o <<tEndIf>>
IfThen(c, a) == <<tIf>> \o c \o <<tThen>> \o a \o <<tEndIf>>
While(c, b) == <<tWhile>> \o c \o <<tDo>> \o b \o <<tEndWhile>>
Def(c, params, b) == <<tDef, T(c), tLP>> \o params \o <<tRP>> \o b \o <<tEndDef>>
Return(e) == <<tReturn>> \o e

(***************************************************************************)
(* Inputs of ParseSpec.                                                    *)
(***************************************************************************)
\* every sequence of 1..MaxExprLen of these tokens is parsed, as `x = E`
ExprAlphabet == {T("a"), tPlus, tMinus, tStar, tEq, tAnd, tOr, tNot, tLP, tRP}

\* the expressions of ParserTests.test_order_of_operations and test_enclosure
\* (test.py lines 214-274) and of the precedence examples
ExprSamples ==
    { <<T("x"), tEq, T("1"), tAnd, T("y"), tStar, T("2"), tMinus, T("4"), tLt,
        T("3"), tOr, tNot, T("5"), make_token(<<"!","=">>), T("z"), tPercent,
        T("6")>>,
      <<tLP, T("1"), tPlus, T("2"), tRP, tStar, T("3")>>,
      <<T("a"), tStar, tLP, T("b"), tMinus, T("c"), tRP, tSlash, T("d")>>,
      <<tNot, tNot, T("a"), tEq, tMinus, tMinus, T("1"), tOr, T("b")>>,
      <<T("a"), tEq, T("1"), tAnd, T("b")>> }

IsExprStream(ts) ==
    /\ Len(ts) > 2
    /\ SubSeq(ts, 1, 2) = <<T("x"), tAssign>>

\* one token of every kind
TokenKinds ==
    { make_token(v) : v \in keywords \cup symbols }
    \cup {T("a"), T("1"), tTrue, Str(<<"s">>)}

\* compound forms with one token at a fixed position replaced by any token
IfHole(t) == <<tIf, tTrue, t>> \o Assign("x", <<T("1")>>) \o <<tEndIf>>
WhileHole(t) == <<tWhile, tFalse, t>> \o Assign("x", <<T("1")>>) \o <<tEndWhile>>
DefNameHole(t) == <<tDef, t, tLP, T("a"), tRP>> \o Return(<<T("a")>>) \o <<tEndDef>>
DefOpenHole(t) == <<tDef, T("f"), t, T("a"), tRP>> \o Return(<<T("a")>>) \o <<tEndDef>>
DefParamHole(t) == <<tDef, T("f"), tLP, t, tRP>> \o Return(<<T("1")>>) \o <<tEndDef>>
ParenHole(t) == Assign("x", <<tLP, T("1"), tPlus, T("2"), t>>) \o Assign("y", <<T("3")>>)

HoleStreams ==
    UNION { {IfHole(t), WhileHole(t), DefNameHole(t), DefOpenHole(t),
             DefParamHole(t), ParenHole(t)} : t \in TokenKinds }

\* a return statement at the top level, nested in top-level blocks, and in
\* function bodies
Ret1 == Return(<<T("1")>>)
TopLevelReturnStreams ==
    { Ret1,
      Assign("x", <<T("1")>>) \o Ret1,
      Ret1 \o Assign("x", <<T("1")>>) }
NestedReturnStreams ==
    { IfThen(<<tTrue>>, Ret1),
      If(<<tTrue>>, Assign("x", <<T("1")>>), Ret1),
      While(<<tTrue>>, Ret1),
      IfThen(<<tTrue>>, While(<<tTrue>>, Ret1)),
      While(<<tFalse>>, If(<<tTrue>>, Ret1, Ret1)),
      Assign("x", <<T("1")>>) \o IfThen(<<tTrue>>, Ret1) }
FunctionReturnStreams ==
    { Def("f", <<>>, Ret1),
      Def("f", <<T("a")>>, IfThen(<<tTrue>>, Ret1)),
      Def("f", <<>>, While(<<tTrue>>, Ret1)),
      IfThen(<<tTrue>>, Def("f", <<>>, Ret1)),
      Def("f", <<>>, Def("g", <<>>, Ret1) \o Ret1) }
ReturnStreams ==
    TopLevelReturnStreams \cup NestedReturnStreams \cup FunctionReturnStreams


(***************************************************************************)
(* Inputs of Spec: token streams of whole programs.                        *)
(***************************************************************************)
Comma(a, b) == a \o <<tComma>> \o b

\* constant expressions that are not Booleans, and the two that are
NonBooleanConsts ==
    { <<T("0")>>, <<T("1")>>, <<T("2")>>, <<tMinus, T("1")>>,
      <<Str(<<"a">>)>>, <<Str(<<>>)>>, <<tLB, tRB>>, <<tLB, T("1"), tRB>> }
BooleanConsts == { <<tTrue>>, <<tFalse>> }

\* if c then print("A") else print("B") end-if print("E")
IfProg(c) == If(c, PrintStr("A"), PrintStr("B")) \o PrintStr("E")
\* if not c then print("A") else print("B") end-if print("E")
NotProg(c) == If(<<tNot>> \o c, PrintStr("A"), PrintStr("B")) \o PrintStr("E")
\* x = c while x do print("W") x = false end-while print("E")
WhileProg(c) ==
    Assign("x", c)
    \o While(<<T("x")>>, PrintStr("W") \o Assign("x", <<tFalse>>))
    \o PrintStr("E")

TruthPrograms ==
    UNION { {IfProg(c), NotProg(c), WhileProg(c)} :
                c \in NonBooleanConsts \cup BooleanConsts }

\* s = []
\* def l() print("l") return lv end-def
\* def r() print("r") insert(s, 0, 1) return rv end-def
\* x = l() op r()
\* print("E")
LeftValues ==
    { <<tTrue>>, <<tFalse>>, <<T("0")>>, <<T("1")>>, <<T("2")>>,
      <<Str(<<"a">>)>> }
ScProg(op, lv, rv) ==
    Assign("s", <<tLB, tRB>>)
    \o Def("l", <<>>, PrintStr("l") \o Return(lv))
    \o Def("r", <<>>,
           PrintStr("r")
           \o Call(n_insert, Comma(<<T("s")>>, Comma(<<T("0")>>, <<T("1")>>)))
           \o Return(rv))
    \o Assign("x", Call(<<"l">>, <<>>) \o <<op>> \o Call(<<"r">>, <<>>))
    \o PrintStr("E")

ShortCircuitPrograms ==
    { ScProg(op, lv, rv) :
        op \in {tOr, tAnd}, lv \in LeftValues, rv \in BooleanConsts }

\* def f() body end-def y = f() print("E"), the body holding `return e`
\* directly, in an if, in a while, and in an if in a while
ReturnContexts == {"direct", "if", "while", "nested"}
ReturnBody(ctx, e) ==
    CASE ctx = "direct" -> Return(e) \o PrintStr("b")
      [] ctx = "if" -> IfThen(<<tTrue>>, Return(e)) \o PrintStr("b")
      [] ctx = "while" ->
            While(<<tTrue>>, Return(e) \o PrintStr("w")) \o PrintStr("b")
      [] ctx = "nested" ->
            While(<<tTrue>>, IfThen(<<tTrue>>, Return(e)) \o PrintStr("w"))
            \o PrintStr("b")
ReturnExprs ==
    { <<T("0")>>, <<T("7")>>, <<tFalse>>, <<tTrue>>, <<Str(<<>>)>>,
      <<tLB, tRB>>, PrintStr("p") }
RetProg(ctx, e) ==
    Def("f", <<>>, ReturnBody(ctx, e))
    \o Assign("y", Call(<<"f">>, <<>>))
    \o PrintStr("E")

ReturnPrograms == { RetProg(ctx, e) : ctx \in ReturnContexts, e \in ReturnExprs }

\* x = a
\* def f() print(x) end-def
\* def g() x = b f() end-def
\* x = c
\* g()
ScopeDigits == {"1", "2", "3"}
LexProg(a, b, c) ==
    Assign("x", <<T(a)>>)
    \o Def("f", <<>>, PrintVar("x"))
    \o Def("g", <<>>, Assign("x", <<T(b)>>) \o Call(<<"f">>, <<>>))
    \o Assign("x", <<T(c)>>)
    \o Call(<<"g">>, <<>>)
\* def f() print(y) end-def
\* def g() y = b f() end-def
\* g()
\* print("E")
CallerOnlyProg(b) ==
    Def("f", <<>>, PrintVar("y"))
    \o Def("g", <<>>, Assign("y", <<T(b)>>) \o Call(<<"f">>, <<>>))
    \o Call(<<"g">>, <<>>)
    \o PrintStr("E")
\* def m() x = a def h() print(x) end-def return h end-def
\* k = m()
\* x = c
\* k()
ClosureProg(a, c) ==
    Def("m", <<>>,
        Assign("x", <<T(a)>>) \o Def("h", <<>>, PrintVar("x"))
        \o Return(<<T("h")>>))
    \o Assign("k", Call(<<"m">>, <<>>))
    \o Assign("x", <<T(c)>>)
    \o Call(<<"k">>, <<>>)

ScopePrograms ==
    { LexProg(a, b, c) : a \in ScopeDigits, b \in ScopeDigits, c \in ScopeDigits }
    \cup { CallerOnlyProg(b) : b \in ScopeDigits }
    \cup { ClosureProg(a, c) : a \in ScopeDigits, c \in ScopeDigits }

\* a = [1, 2]
\* b = a
\* def m(s) op(s, i, v) end-def
\* op(b, i, v)  or  m(a)  or  m(b)
\* print(geti(a, 0)) print(geti(b, 1)) print(len(a)) print(len(b))
SeqOps == {n_seti, n_insert}
SeqVias == {"alias", "callee_a", "callee_b"}
SeqIndexes == {"0", "1"}
SeqValues == {"7", "8"}
SeqProg(op, via, i, v) ==
    Assign("a", <<tLB>> \o Comma(<<T("1")>>, <<T("2")>>) \o <<tRB>>)
    \o Assign("b", <<T("a")>>)
    \o Def("m", <<T("s")>>,
           Call(op, Comma(<<T("s")>>, Comma(<<T(i)>>, <<T(v)>>))))
    \o (CASE via = "alias" ->
                Call(op, Comma(<<T("b")>>, Comma(<<T(i)>>, <<T(v)>>)))
          [] via = "callee_a" -> Call(<<"m">>, <<T("a")>>)
          [] via = "callee_b" -> Call(<<"m">>, <<T("b")>>))
    \o Call(n_print, Call(n_geti, Comma(<<T("a")>>, <<T("0")>>)))
    \o Call(n_print, Call(n_geti, Comma(<<T("b")>>, <<T("1")>>)))
    \o Call(n_print, Call(n_len, <<T("a")>>))
    \o Call(n_print, Call(n_len, <<T("b")>>))

SequencePrograms ==
    { SeqProg(op, via, i, v) :
        op \in SeqOps, via \in SeqVias, i \in SeqIndexes, v \in SeqValues }

\* top-level statements named by a tag: print("a"), print("b"), x = 1 and
\* if true then return 1 end-if
PrefixTags == {"a", "b", "x", "n"}
TopStatement(tag) ==
    CASE tag \in {"a", "b"} -> PrintStr(tag)
      [] tag = "x" -> Assign("x", <<T("1")>>)
      [] tag = "n" -> IfThen(<<tTrue>>, Ret1)
RECURSIVE TopStatements(_)
TopStatements(tags) ==
    IF tags = <<>> THEN <<>>
    ELSE TopStatement(Head(tags)) \o TopStatements(Tail(tags))
PrefixTagSeqs == UNION { [1..n -> PrefixTags] : n \in 0..2 }
TopReturnExprs == { <<T("1")>>, PrintStr("r") }
TopReturnTails == { <<>>, PrintStr("z") }
\* the statements of tags, then a top-level `return e`, then tail
TopRetProg(tags, e, tail) == TopStatements(tags) \o Return(e) \o tail

TopReturnPrograms ==
    { TopRetProg(tags, e, tail) :
        tags \in PrefixTagSeqs, e \in TopReturnExprs, tail \in TopReturnTails }

\* statements that read a name bound in no frame of the chain: print(y),
\* y(), x = y, and the first two inside a function called at top level
MissingNameBodies ==
    { PrintVar("y"),
      Call(<<"y">>, <<>>),
      Assign("x", <<T("y")>>),
      Def("f", <<>>, PrintVar("y")) \o Call(<<"f">>, <<>>),
      Def("f", <<>>, Call(<<"y">>, <<>>)) \o Call(<<"f">>, <<>>) }
\* print("a") body print("z")
MissingNameProg(body) == PrintStr("a") \o body \o PrintStr("z")
MissingNamePrograms == { MissingNameProg(b) : b \in MissingNameBodies }

\* a = [1, 2], then print(geti(a, i)) or seti(a, i, 7), then print("z"),
\* for the indexes around both ends of the list
IndexOps == {n_geti, n_seti}
IndexRange == (0 - 3)..3
SignedInt(i) ==
    IF i < 0 THEN <<tMinus, make_token(DigitsOfNat(0 - i))>>
    ELSE <<make_token(DigitsOfNat(i))>>
IndexProg(op, i) ==
    Assign("a", <<tLB>> \o Comma(<<T("1")>>, <<T("2")>>) \o <<tRB>>)
    \o (IF op = n_geti
        THEN Call(n_print, Call(n_geti, Comma(<<T("a")>>, SignedInt(i))))
        ELSE Call(n_seti, Comma(<<T("a")>>, Comma(SignedInt(i), <<T("7")>>))))
    \o PrintStr("z")
IndexPrograms == { IndexProg(op, i) : op \in IndexOps, i \in IndexRange }

\* the write made inside a function body to the name x, which the global
\* frame, the captured frame and the caller's frame all bind:
\* x = 3, or def x() end-def
FrameWrites == {"assign", "def"}
FrameWrite(w) ==
    IF w = "assign" THEN Assign("x", <<T("3")>>) ELSE Def("x", <<>>, <<>>)
\* x = 1
\* def g() W end-def
\* g()
\* print(x)
DirectWriteProg(w) ==
    Assign("x", <<T("1")>>)
    \o Def("g", <<>>, FrameWrite(w))
    \o Call(<<"g">>, <<>>)
    \o PrintVar("x")
\* x = 1
\* def m() x = 2 def h() W end-def return h end-def
\* k = m()
\* def c() x = 6 k() print(x) end-def
\* c()
\* print(x)
NestedWriteProg(w) ==
    Assign("x", <<T("1")>>)
    \o Def("m", <<>>,
           Assign("x", <<T("2")>>) \o Def("h", <<>>, FrameWrite(w))
           \o Return(<<T("h")>>))
    \o Assign("k", Call(<<"m">>, <<>>))
    \o Def("c", <<>>,
           Assign("x", <<T("6")>>) \o Call(<<"k">>, <<>>) \o PrintVar("x"))
    \o Call(<<"c">>, <<>>)
    \o PrintVar("x")
FramePrograms ==
    { DirectWriteProg(w) : w \in FrameWrites }
    \cup { NestedWriteProg(w) : w \in FrameWrites }

\* a = A  b = B  q = a / b  r = a % b, for dividends and divisors of both
\* signs
Dividends == (0 - 7)..7
Divisors == ((0 - 3)..3) \ {0}
DivProg(a, b) ==
    Assign("a", SignedInt(a))
    \o Assign("b", SignedInt(b))
    \o Assign("q", <<T("a"), tSlash, T("b")>>)
    \o Assign("r", <<T("a"), tPercent, T("b")>>)
DivPrograms == { DivProg(a, b) : a \in Dividends, b \in Divisors }

\* the token streams of an empty or whitespace-only source and of the
\* one-token source `x`
ShortPrograms == { <<>>, <<T("x")>> }

Programs ==
    TruthPrograms \cup ShortCircuitPrograms \cup ReturnPrograms
    \cup ScopePrograms \cup SequencePrograms \cup TopReturnPrograms
    \cup MissingNamePrograms \cup IndexPrograms \cup FramePrograms
    \cup DivPrograms \cup ShortPrograms

\* compound forms cut off before their closing token: the proper prefixes,
\* of two tokens or more, of
\*   def f(a, b) x = 1 end-def        f(1, 2)        x = [1, 2]
\*   if true then x = 1 else y = 2 end-if    while true do x = 1 end-while
ClosedForms ==
    { Def("f", Comma(<<T("a")>>, <<T("b")>>), Assign("x", <<T("1")>>)),
      Call(<<"f">>, Comma(<<T("1")>>, <<T("2")>>)),
      Assign("x", <<tLB>> \o Comma(<<T("1")>>, <<T("2")>>) \o <<tRB>>),
      If(<<tTrue>>, Assign("x", <<T("1")>>), Assign("y", <<T("2")>>)),
      While(<<tTrue>>, Assign("x", <<T("1")>>)) }
Prefixes(s) == { SubSeq(s, 1, n) : n \in 2..(Len(s) - 1) }
UnclosedStreams == UNION { Prefixes(s) : s \in ClosedForms }

(***************************************************************************)
(* ParseSpec: list(parse(iter(toks))).  The generator starts with its two  *)
(* pulls, then yields one top-level statement per action until `token` is  *)
(* eof.                                                                    *)
(***************************************************************************)
ParseInit ==
    /\ \/ \E n \in 1..MaxExprLen : \E e \in [1..n -> ExprAlphabet] :
            toks = Assign("x", e)
       \/ \E e \in ExprSamples : toks = Assign("x", e)
       \/ toks \in HoleStreams \cup ReturnStreams \cup UnclosedStreams
    /\ ti = 0
    /\ stmts = <<>>
    /\ status = "run"
    /\ IdleLex
    /\ IdleExec

\* lines 112-113
ParseStart ==
    /\ status = "run"
    /\ ti = 0
    /\ LET r == parse_start(toks)
       IN  /\ ti' = r.i
           /\ status' = IF r.st = "ok" THEN "run" ELSE r.st
    /\ UNCHANGED <<toks, stmts, lexvars, execvars>>

\* one iteration of the loop of lines 289-290
ParseYield ==
    /\ status = "run"
    /\ ti > 0
    /\ TokAt(toks, ti).type # "eof"
    /\ LET r == top_level_statement(toks, ti)
       IN  IF r.st = "ok"
           THEN /\ stmts' = Append(stmts, r.v)
                /\ ti' = r.i
                /\ status' = "run"
           ELSE /\ status' = r.st
                /\ UNCHANGED <<stmts, ti>>
    /\ UNCHANGED <<toks, lexvars, execvars>>

\* the loop of line 289 ends: the generator is exhausted
ParseEnd ==
    /\ status = "run"
    /\ ti > 0
    /\ TokAt(toks, ti).type = "eof"
    /\ status' = "done"
    /\ UNCHANGED <<parsevars, lexvars, execvars>>

ParseNext == ParseStart \/ ParseYield \/ ParseEnd

ParseSpec == ParseInit /\ [][ParseNext]_vars

(***************************************************************************)
(* Spec: execute(env, parse(iter(toks))) with env the global environment   *)
(* (lines 525-531, 543-544).  exec_block's for loop pulls one statement    *)
(* from the parser and executes it before the parser reads on.             *)
(***************************************************************************)
Init ==
    /\ toks \in Programs
    /\ ti = 0
    /\ stmts = <<>>
    /\ frames = build_global_environment
    /\ heap = <<>>
    /\ out = <<>>
    /\ steps = 0
    /\ status = "run"
    /\ IdleLex

ExecNow == [frames |-> frames, heap |-> heap, out |-> out, steps |-> steps]

\* the first next() on the generator: lines 112-113
Start ==
    /\ status = "run"
    /\ ti = 0
    /\ LET r == parse_start(toks)
       IN  /\ ti' = r.i
           /\ status' = IF r.st = "ok" THEN "run" ELSE r.st
    /\ UNCHANGED <<toks, stmts, lexvars, execvars>>

\* one iteration of exec_block's loop over the generator (lines 376-378):
\* the parser yields the next top-level statement (line 290), exec_statement
\* runs it, and a true ret ends execute
Step ==
    /\ status = "run"
    /\ ti > 0
    /\ TokAt(toks, ti).type # "eof"
    /\ LET p == top_level_statement(toks, ti)
           r == exec_statement(ExecNow, 1, p.v)
       IN  IF p.st # "ok"
           THEN /\ status' = p.st
                /\ UNCHANGED <<stmts, ti, execvars>>
           ELSE /\ stmts' = Append(stmts, p.v)
                /\ ti' = p.i
                /\ frames' = r.es.frames
                /\ heap' = r.es.heap
                /\ out' = r.es.out
                /\ steps' = r.es.steps
                /\ status' = IF r.st # "ok" THEN r.st
                             ELSE IF PyTruth(r.v) THEN "returned"
                             ELSE "run"
    /\ UNCHANGED <<toks, lexvars>>

\* the generator is exhausted: exec_block falls off its loop
Finish ==
    /\ status = "run"
    /\ ti > 0
    /\ TokAt(toks, ti).type = "eof"
    /\ status' = "done"
    /\ UNCHANGED <<parsevars, lexvars, execvars>>

Next == Start \/ Step \/ Finish

Spec == Init /\ [][Next]_vars


(***************************************************************************)
(* Properties of Spec: truthiness, short circuit, return.                  *)
(***************************************************************************)
\* C1: truthiness.  Only the Boolean true is truthy: for every constant c that
\* is not a Boolean (every integer, 1 included, every string and sequence),
\* `if c then A else B` runs B, `if not c then A else B` runs A, and a while
\* loop on a variable holding c runs its body zero times.
C1_OnlyTrueIsTruthy ==
    \A c \in NonBooleanConsts :
        status = "done" =>
            /\ toks = IfProg(c) => out = <<"B", "E">>
            /\ toks = NotProg(c) => out = <<"A", "E">>
            /\ toks = WhileProg(c) => out = <<"E">>

\* truthy as the glossary defines it: the Boolean true and nothing else
GlossaryTruthy(lv) == lv = <<tTrue>>

\* the left operand decides the result of `L op R`
Decisive(op, lv) ==
    \/ op = tOr /\ GlossaryTruthy(lv)
    \/ op = tAnd /\ ~GlossaryTruthy(lv)

\* C2: short circuit.  In `l() or r()` with l() truthy and in `l() and r()`
\* with l() not truthy, r() is never evaluated: it writes nothing and does not
\* insert into s; otherwise r() is evaluated exactly once, after l().
C2_ShortCircuit ==
    \A op \in {tOr, tAnd}, lv \in LeftValues, rv \in BooleanConsts :
        toks = ScProg(op, lv, rv) /\ status = "done" =>
            IF Decisive(op, lv)
            THEN out = <<"l", "E">> /\ heap = << <<>> >>
            ELSE out = <<"l", "r", "E">> /\ heap = << <<Integer(1)>> >>

\* what `return e` is to hand to the caller, and what evaluating e writes
RetVal(e) ==
    CASE e = <<T("0")>> -> Integer(0)
      [] e = <<T("7")>> -> Integer(7)
      [] e = <<tFalse>> -> Boolean(FALSE)
      [] e = <<tTrue>> -> Boolean(TRUE)
      [] e = <<Str(<<>>)>> -> String(<<>>)
      [] e = <<tLB, tRB>> -> Sequence(1)
      [] e = PrintStr("p") -> NoneVal
RetOut(e) == IF e = PrintStr("p") THEN <<"p">> ELSE <<>>

\* C3: return propagation.  Once `return e` has executed in the body of f, at
\* any depth inside if and while blocks, no later statement of the body runs
\* (nothing of "b" or "w" is written, the loop does not go round again) and
\* f() evaluates to the value of e, whatever e evaluates to.
C3_ReturnStopsBody ==
    \A ctx \in ReturnContexts, e \in ReturnExprs :
        toks = RetProg(ctx, e) =>
            /\ \A k \in 1..Len(out) : out[k] \notin {"b", "w"}
            /\ status # "MaxSteps"
            /\ status = "done" =>
                  /\ out = RetOut(e) \o <<"E">>
                  /\ <<"y">> \in DOMAIN frames[1].vars
                  /\ frames[1].vars[<<"y">>] = RetVal(e)

(***************************************************************************)
(* Properties of Spec: scoping and sharing.                                *)
(***************************************************************************)
\* C4: lexical scoping.  A call frame's parent is the environment in which
\* the function was defined, never the caller's frame: f called from g
\* prints the global x as it is at call time, not g's x; a name bound only
\* in g's frame is not found by f; a function defined inside m and called
\* from the top level reads m's x.
C4_LexicalScope ==
    /\ \A a \in ScopeDigits, b \in ScopeDigits, c \in ScopeDigits :
          toks = LexProg(a, b, c) =>
              /\ \A k \in 2..Len(frames) : frames[k].parent = 1
              /\ status # "run" => status = "done" /\ out = <<c>>
    /\ \A b \in ScopeDigits :
          toks = CallerOnlyProg(b) => out = <<>> /\ status # "done"
    /\ \A a \in ScopeDigits, c \in ScopeDigits :
          toks = ClosureProg(a, c) /\ status # "run" =>
              /\ status = "done"
              /\ out = <<a>>
              /\ Len(frames) = 4
              /\ frames[3].parent = 2

\* f, called from g, has printed the global x and not g's
C4_Witness ==
    \E a \in ScopeDigits, b \in ScopeDigits, c \in ScopeDigits :
        /\ a # c
        /\ b # c
        /\ toks = LexProg(a, b, c)
        /\ status = "done"
        /\ out = <<c>>
        /\ frames[2].vars[<<"x">>] = Integer(IntOfDigits(<<b>>))

\* the list [1, 2] after op(_, i, v), as digits
SeqExpected(op, i, v) ==
    IF op = n_seti
    THEN (IF i = "0" THEN <<v, "2">> ELSE <<"1", v>>)
    ELSE (IF i = "0" THEN <<v, "1", "2">> ELSE <<"1", v, "2">>)
DigitValue(c) ==
    CASE c = "1" -> Integer(1)
      [] c = "2" -> Integer(2)
      [] c = "7" -> Integer(7)
      [] c = "8" -> Integer(8)

\* C5: sequences are shared by reference.  After b = a, a seti or insert
\* through b, or in a callee handed a or b, is seen by geti and len through
\* both names: a and b are one list object, never a copy.
C5_SharedByReference ==
    \A op \in SeqOps, via \in SeqVias, i \in SeqIndexes, v \in SeqValues :
        toks = SeqProg(op, via, i, v) /\ status # "run" =>
            LET e == SeqExpected(op, i, v)
                n == IF op = n_seti THEN "2" ELSE "3"
            IN  /\ status = "done"
                /\ out = <<e[1], e[2], n, n>>
                /\ frames[1].vars[<<"a">>] = frames[1].vars[<<"b">>]
                /\ heap = << [k \in 1..Len(e) |-> DigitValue(e[k])] >>

\* a callee handed b has inserted 7 in front, and a shows it
C5_Witness ==
    /\ toks = SeqProg(n_insert, "callee_b", "0", "7")
    /\ status = "done"
    /\ out = <<"7", "1", "3", "3">>
    /\ heap = << <<Integer(7), Integer(1), Integer(2)>> >>

(***************************************************************************)
(* Properties of ParseSpec.                                                *)
(***************************************************************************)
\* the tokens of the expression of `x = E` once the parser has read it
ExprOf(ts, i) == SubSeq(ts, 3, Min(i - 1, Len(ts)))

\* the number of parentheses open before position p
RECURSIVE DepthBefore(_, _)
DepthBefore(e, p) ==
    IF p = 1 THEN 0
    ELSE DepthBefore(e, p - 1)
         + (CASE e[p - 1].type = "open-paren" -> 1
              [] e[p - 1].type = "close-paren" -> -1
              [] OTHER -> 0)

Balanced(e) ==
    /\ \A p \in 1..Len(e) + 1 : DepthBefore(e, p) >= 0
    /\ DepthBefore(e, Len(e) + 1) = 0

\* operators, operands and parentheses only: no call, no sequence
PlainExpr(e) ==
    /\ \A p \in 1..Len(e) : e[p].type \notin {"open-bracket", "comma"}
    /\ \A p \in 1..Len(e) - 1 :
          ~(e[p].type = "identifier" /\ e[p + 1].type = "open-paren")

OperandTypes == {"identifier", "integer", "string", "boolean"}

\* + and - are binary after an operand, prefix signs elsewhere
BinaryAt(e, p) == p > 1 /\ e[p - 1].type \in OperandTypes \cup {"close-paren"}

\* the rung of the operator at p on the ladder, the weakest binding highest:
\* or, and, not, comparison, additive, multiplicative, sign; 0: no operator
Rung(e, p) ==
    CASE e[p].type = "or" -> 7
      [] e[p].type = "and" -> 6
      [] e[p].type = "not" -> 5
      [] e[p].type \in {"eq", "noteq", "lt", "gt", "lteq", "gteq"} -> 4
      [] e[p].type \in {"add", "sub"} -> (IF BinaryAt(e, p) THEN 3 ELSE 1)
      [] e[p].type \in {"mul", "div", "mod"} -> 2
      [] OTHER -> 0

RungClass(r) ==
    CASE r = 7 -> "OrExpr"
      [] r = 6 -> "AndExpr"
      [] r = 5 -> "NotExpr"
      [] r = 4 -> "CompExpr"
      [] r = 3 -> "AddExpr"
      [] r = 2 -> "MulExpr"
      [] r = 1 -> "SignExpr"

\* the operators outside every parenthesis
TopOps(e) == { p \in 1..Len(e) : DepthBefore(e, p) = 0 /\ Rung(e, p) > 0 }

NoTree == [k |-> "none"]

\* the tree the ladder gives e: the root is the weakest-binding operator
\* outside parentheses, the last one of its rung when it is binary (grouping
\* to the left), the first token when it is a prefix; without one, e is an
\* operand or a parenthesised expression, which has no node of its own
RECURSIVE RefTree(_)
RefTree(e) ==
    IF e = <<>> THEN NoTree
    ELSE IF TopOps(e) = {}
    THEN IF Len(e) = 1
         THEN (IF e[1].type = "identifier" THEN VariableExpr(e[1])
               ELSE IF e[1].type \in OperandTypes THEN ConstantExpr(e[1])
               ELSE NoTree)
         ELSE IF e[1].type = "open-paren" /\ e[Len(e)].type = "close-paren"
         THEN RefTree(SubSeq(e, 2, Len(e) - 1))
         ELSE NoTree
    ELSE LET w == CHOOSE r \in 1..7 :
                    /\ \E p \in TopOps(e) : Rung(e, p) = r
                    /\ \A p \in TopOps(e) : Rung(e, p) <= r
         IN  IF w \in {5, 1}
             THEN (IF 1 \in TopOps(e) /\ Rung(e, 1) = w
                   THEN UnaryExpr(RungClass(w), e[1], RefTree(Tail(e)))
                   ELSE NoTree)
             ELSE LET p == CHOOSE q \in TopOps(e) :
                                /\ Rung(e, q) = w
                                /\ \A o \in TopOps(e) : Rung(e, o) = w => o <= q
                  IN  BinaryExpr(RungClass(w), e[p],
                                 RefTree(SubSeq(e, 1, p - 1)),
                                 RefTree(SubSeq(e, p + 1, Len(e))))

\* C6: operator precedence.  For every expression E of operators, operands
\* and parentheses that the parser accepts in `x = E`, the AST is the tree of
\* the ladder or < and < not < comparison < additive < multiplicative < sign
\* < atom, binary operators of one rung grouped to the left and a
\* parenthesised subexpression an atom with no node of its own.
C6_Precedence ==
    ( /\ IsExprStream(toks)
      /\ Len(stmts) = 1
      /\ Balanced(ExprOf(toks, ti))
      /\ PlainExpr(ExprOf(toks, ti)) )
    => /\ stmts[1].k = "AssignmentStmnt"
       /\ stmts[1].expr = RefTree(ExprOf(toks, ti))

\* x = a + a * a has been parsed as Add(a, Mul(a, a))
C6_Witness ==
    /\ toks = Assign("x", <<T("a"), tPlus, T("a"), tStar, T("a")>>)
    /\ status = "done"
    /\ stmts = << AssignmentStmnt(T("x"),
                    BinaryExpr("AddExpr", tPlus, VariableExpr(T("a")),
                        BinaryExpr("MulExpr", tStar, VariableExpr(T("a")),
                                   VariableExpr(T("a"))))) >>

\* a return statement in stm that is not inside a function body
RECURSIVE HasBareReturn(_)
HasBareReturn(stm) ==
    CASE stm.k = "ReturnStmnt" -> TRUE
      [] stm.k = "IfStmnt" ->
            \/ \E j \in 1..Len(stm.then) : HasBareReturn(stm.then[j])
            \/ \E j \in 1..Len(stm.els) : HasBareReturn(stm.els[j])
      [] stm.k = "WhileStmnt" ->
            \E j \in 1..Len(stm.do) : HasBareReturn(stm.do[j])
      [] OTHER -> FALSE

\* C7: a return is accepted only inside a function body.  A return that is a
\* top-level statement, or nested in a top-level if or while block, makes
\* the parser fail: no statement the parser yields holds a return outside a
\* def, and a stream with such a return ends in ErioSyntaxError.
C7_ReturnOnlyInFunction ==
    /\ \A k \in 1..Len(stmts) : ~HasBareReturn(stmts[k])
    /\ toks \in TopLevelReturnStreams \cup NestedReturnStreams =>
          status \in {"run", "ErioSyntaxError"}

\* the compound forms whose token at a fixed position is of another kind
\* than the form's
MisplacedTokenStreams ==
    UNION { {IfHole(t) : t \in {u \in TokenKinds : u.type # "then"}},
            {WhileHole(t) : t \in {u \in TokenKinds : u.type # "do"}},
            {DefNameHole(t) : t \in {u \in TokenKinds : u.type # "identifier"}},
            {DefOpenHole(t) : t \in {u \in TokenKinds : u.type # "open-paren"}},
            {DefParamHole(t) :
                t \in {u \in TokenKinds :
                          u.type \notin {"identifier", "close-paren"}}},
            {ParenHole(t) : t \in {u \in TokenKinds : u.type # "close-paren"}} }

\* C9: the parser checks the tokens at fixed positions.  When the token
\* after an if condition is not `then`, after a while condition not `do`,
\* after a def name not `(`, a def name or parameter not an identifier, or
\* the token closing a parenthesised expression not `)`, parsing fails with
\* ErioSyntaxError and yields no statement for the form.
C9_FixedTokensChecked ==
    toks \in MisplacedTokenStreams =>
        /\ stmts = <<>>
        /\ status \in {"run", "ErioSyntaxError"}

(***************************************************************************)
(* Properties of Spec: a return at the top level.                          *)
(***************************************************************************)
PlainTags(tags) == \A k \in 1..Len(tags) : tags[k] # "n"

\* what the print calls of tags write
Printed(tags) == SelectSeq(tags, LAMBDA t : t \in {"a", "b"})

\* the statements before the first `if true then return 1 end-if` of tags
RECURSIVE UntilReturn(_)
UntilReturn(tags) ==
    IF tags = <<>> \/ Head(tags) = "n" THEN <<>>
    ELSE <<Head(tags)>> \o UntilReturn(Tail(tags))

\* C8 as the specification states it: a source with a top-level return ends
\* in ErioSyntaxError with nothing written to the sink, whatever print calls
\* and assignments precede the return.
C8_NoOutputBeforeSyntaxError ==
    \A tags \in PrefixTagSeqs, e \in TopReturnExprs, tail \in TopReturnTails :
        toks = TopRetProg(tags, e, tail) /\ PlainTags(tags) /\ status # "run" =>
            status = "ErioSyntaxError" /\ out = <<>>

\* C8: the parser is pulled one statement at a time.  The statements before
\* the top-level return are executed first and their output is on the sink;
\* then the return raises ErioSyntaxError, unless one of them has ended the
\* execution before; the return's expression and what follows the return
\* are never evaluated.
C8_SyntaxErrorAtTheReturn ==
    \A tags \in PrefixTagSeqs, e \in TopReturnExprs, tail \in TopReturnTails :
        toks = TopRetProg(tags, e, tail) =>
            /\ \A k \in 1..Len(out) : out[k] \notin {"r", "z"}
            /\ status # "done"
            /\ status # "run" /\ PlainTags(tags) =>
                  /\ status = "ErioSyntaxError"
                  /\ out = Printed(tags)
                  /\ Len(stmts) = Len(tags)
            /\ status # "run" /\ ~PlainTags(tags) =>
                  /\ status = "returned"
                  /\ out = Printed(UntilReturn(tags))

\* print("a") print("b") return 1 print("z") has written ab and then failed
C8_Witness ==
    /\ toks = TopRetProg(<<"a", "b">>, <<T("1")>>, PrintStr("z"))
    /\ status = "ErioSyntaxError"
    /\ out = <<"a", "b">>

(***************************************************************************)
(* Properties of LexSpec.                                                  *)
(***************************************************************************)
\* position p of s, or the end of s, is outside every string literal
Outside(s, p) == Cardinality({ k \in 1..p - 1 : s[k] = Quote }) % 2 = 0

InsertAt(s, p, c) == SubSeq(s, 1, p - 1) \o <<c>> \o SubSeq(s, p, Len(s))
RemoveAt(s, p) == SubSeq(s, 1, p - 1) \o SubSeq(s, p + 1, Len(s))

\* the whitespace of s outside string literals
Blank(s, p) == p \in 1..Len(s) /\ IsSpace(s[p]) /\ Outside(s, p)

\* s with one whitespace character outside string literals replaced by
\* another, with a run of whitespace made one longer or one shorter, and with
\* one leading or trailing whitespace character added or removed
WhitespaceVariants(s) ==
    { [s EXCEPT ![p] = w] : p \in { q \in 1..Len(s) : Blank(s, q) },
                            w \in Whitespace }
    \cup { InsertAt(s, p, w) :
             p \in { q \in 1..Len(s) + 1 :
                       /\ Outside(s, q)
                       /\ \/ q = 1
                          \/ q = Len(s) + 1
                          \/ Blank(s, q)
                          \/ Blank(s, q - 1) },
             w \in Whitespace }
    \cup { RemoveAt(s, p) :
             p \in { q \in 1..Len(s) :
                       /\ Blank(s, q)
                       /\ \/ q = 1
                          \/ q = Len(s)
                          \/ Blank(s, q - 1)
                          \/ Blank(s, q + 1) } }

\* C10: whitespace invariance.  Once tokenize has ended on stream, every
\* stream that differs from it in whitespace outside string literals (a run
\* changed into another non-empty run, leading or trailing whitespace added
\* or removed) gives the same tokens and raises ErioInvalidTokenError
\* exactly when stream did.
C10_WhitespaceInvariance ==
    status # "run" =>
        \A v \in WhitespaceVariants(stream) :
            /\ tokenize(v).tokens = tokens
            /\ tokenize(v).err = (status = "ErioInvalidTokenError")

\* a = 1 with a newline and a tab has been read, and reads as a=1 does with
\* other whitespace
C10_Witness ==
    /\ stream = <<"a", "\n", "=", "\t", "1", "-", "1">>
    /\ status = "done"
    /\ tokens = <<T("a"), tAssign, T("1"), tMinus, T("1")>>
    /\ tokenize(<<" ", "a", " ", " ", "=", "\t", "1", "-", "1", "\n">>).tokens
          = tokens

\* ---------------------------------------------------------------------
\* C11: whenever the character stream ends while the lexer is in
\* in-string mode, tokenize raises InvalidToken when it flushes the
\* buffer and yields no token for the open lexeme, for every content
\* after the opening quote, none included.
C11_UnterminatedStringRaises ==
    (status # "run" /\ pos = Len(stream) + 1 /\ instring)
        => /\ status = "ErioInvalidTokenError"
           /\ tokens = tokenize(SubSeq(stream, 1,
                                       Len(stream) - Len(buffer))).tokens

\* ---------------------------------------------------------------------
\* C12: evaluating a variable, or calling a function, whose name is bound
\* in no frame of the parent chain aborts execution with an error of the
\* RuntimeError kind of the Erio error hierarchy and with no other kind:
\* the statements before it have run, the ones after it have not.
C12_NameNotFoundIsRuntimeError ==
    /\ toks \in MissingNamePrograms /\ status # "run" =>
          status = "ErioRuntimeError" /\ out = <<"a">>
    /\ \A b \in ScopeDigits :
          toks = CallerOnlyProg(b) /\ status # "run" =>
              status = "ErioRuntimeError"

\* ---------------------------------------------------------------------
\* C13: on a sequence of length n, geti(seq, i) and seti(seq, i, v)
\* succeed only for 0 <= i <= n-1, geti returning the element at position
\* i counted from the front; for every other i, negative or >= n, the call
\* fails with a runtime error and the sequence is left unchanged.
C13_IndexRange ==
    \A op \in IndexOps, i \in IndexRange :
        toks = IndexProg(op, i) /\ status # "run" =>
            IF 0 <= i /\ i <= 1
            THEN /\ status = "done"
                 /\ out = (IF op = n_geti THEN DigitsOfNat(i + 1) ELSE <<>>)
                          \o <<"z">>
                 /\ heap = << IF op = n_geti
                              THEN <<Integer(1), Integer(2)>>
                              ELSE [<<Integer(1), Integer(2)>>
                                       EXCEPT ![i + 1] = Integer(7)] >>
            ELSE /\ status \notin {"done", "returned"}
                 /\ out = <<>>
                 /\ heap = << <<Integer(1), Integer(2)>> >>

\* ---------------------------------------------------------------------
\* the frame of the call of h in NestedWriteProg(w) holds the write
WrittenValue(w, v) ==
    IF w = "assign" THEN v = Integer(3) ELSE v.t = "Function" /\ v.env = 4

\* C14: an Assignment or FunctionDef executed inside a function body
\* writes only the call frame of that invocation.  Over a top-level call
\* statement every frame that existed before the call, the global frame and
\* the captured frames included, keeps every binding; the frame of a caller
\* keeps its own binding of the assigned name; frames are only added.
C14_AssignmentFrameEffect ==
    [][ (/\ status = "run"
         /\ Len(stmts') = Len(stmts) + 1
         /\ stmts'[Len(stmts')].k = "FunctionCall")
        => /\ Len(frames') >= Len(frames)
           /\ \A k \in 1..Len(frames) : frames'[k] = frames[k]
           /\ \A w \in FrameWrites :
                 toks = NestedWriteProg(w) /\ Len(frames) = 2 =>
                     /\ Len(frames') = 5
                     /\ frames'[3] = Namespace([n \in {<<"x">>} |-> Integer(6)], 1)
                     /\ DOMAIN frames'[4].vars = {<<"x">>}
                     /\ frames'[4].parent = 2
                     /\ WrittenValue(w, frames'[4].vars[<<"x">>])
                     /\ out' = <<"6">>
      ]_vars

\* h, called from c through k, has assigned x = 3 in its own frame, while
\* the global frame, the frame h captured and c's frame keep 1, 2 and 6
C14_Witness ==
    /\ toks = NestedWriteProg("assign")
    /\ status = "done"
    /\ out = <<"6", "1">>
    /\ Len(frames) = 6
    /\ frames[4].vars[<<"x">>] = Integer(3)
    /\ frames[3].vars[<<"x">>] = Integer(6)
    /\ frames[2].vars[<<"x">>] = Integer(2)
    /\ frames[1].vars[<<"x">>] = Integer(1)

\* ---------------------------------------------------------------------
\* q is the floor of the exact quotient a / b: a / b lies in [q, q + 1)
IsFloorOfQuotient(q, a, b) ==
    IF b > 0 THEN q * b <= a /\ a < (q + 1) * b
    ELSE q * b >= a /\ a > (q + 1) * b

\* C15: for all integers a and b with b # 0, negative values included,
\* a / b is the floor of the exact quotient, a % b is zero or has the sign
\* of b, and a == (a / b) * b + (a % b).
C15_FloorDivMod ==
    \A a \in Dividends, b \in Divisors :
        toks = DivProg(a, b) /\ status # "run" =>
            /\ status = "done"
            /\ LET q == frames[1].vars[<<"q">>]
                   r == frames[1].vars[<<"r">>]
               IN  /\ q.t = "Integer" /\ r.t = "Integer"
                   /\ frames[1].vars[<<"a">>] = Integer(a)
                   /\ frames[1].vars[<<"b">>] = Integer(b)
                   /\ IsFloorOfQuotient(q.val, a, b)
                   /\ r.val = 0 \/ (r.val > 0 <=> b > 0)
                   /\ a = q.val * b + r.val

\* -7 / 2 is -4 and -7 % 2 is 1
C15_Witness ==
    /\ toks = DivProg(0 - 7, 2)
    /\ status = "done"
    /\ frames[1].vars[<<"q">>] = Integer(0 - 4)
    /\ frames[1].vars[<<"r">>] = Integer(1)

\* ---------------------------------------------------------------------
\* C16: for every finite token sequence parse terminates, by reaching eof
\* or by raising SyntaxError; no rule iterates forever on the eof sentinel
\* when its closing token is missing, in an unclosed def parameter list,
\* call argument list, sequence literal, or if/while/def block.  (Streams
\* of two tokens or more: the first two pulls are the subject of C18.)
C16_ParserTerminates ==
    /\ Len(toks) >= 2 /\ status # "run" =>
          status \in {"done", "ErioSyntaxError"}
    /\ toks \in UnclosedStreams /\ status # "run" =>
          status = "ErioSyntaxError" /\ stmts = <<>>

\* ---------------------------------------------------------------------
\* the token of an identifier or integer lexeme
LexemeToken(L) ==
    Token(IF L[1] \in Digits THEN "integer" ELSE "identifier", L)

\* C17: for every identifier or integer lexeme L and every symbol S, the
\* input LS tokenizes to the same tokens as L S, namely the token for L
\* followed by the token for S, while the hyphenated keywords end-if,
\* end-while and end-def are each emitted as one keyword token.
C17_SymbolsNeedNoWhitespace ==
    /\ stream \in SymbolStreams /\ status # "run" =>
          \A L \in SymbolLexemes, sep \in Separators, S \in symbols :
              stream = L \o sep \o S =>
                  /\ status = "done"
                  /\ tokens = <<LexemeToken(L), Token(SymbolType(S), S)>>
    /\ stream \in HyphenatedKeywords /\ status # "run" =>
          /\ status = "done"
          /\ Len(tokens) = 1
          /\ tokens[1].value = stream
          /\ tokens[1].type \in {"end-if", "end-while", "end-def"}

\* ---------------------------------------------------------------------
\* C18: the parser treats exhaustion of the token stream as the eof token
\* at every pull, the first two included: an empty token stream yields an
\* empty statement sequence and executes with no output and no error, and
\* a one-token stream is parsed with eof as its lookahead.
C18_ShortInputs ==
    /\ toks = <<>> /\ status # "run" =>
          status = "done" /\ stmts = <<>> /\ out = <<>>
    /\ toks = <<T("x")>> /\ status # "run" =>
          status = "ErioSyntaxError" /\ stmts = <<>> /\ out = <<>>

=============================================================================
